---- MODULE Spec2Model ----
(***************************************************************************)
(* State-machine model of CustomGameEnv (src/AECSetup.py): the six-player  *)
(* Avalon rules engine.  reset() is Init, every branch of step() is one    *)
(* action, observe() is a family of operators over the state.              *)
(*                                                                         *)
(* Python lists are sequences (1-based here, 0-based in the source: every  *)
(* index read from a program variable is used as  seq[i + 1]), Python      *)
(* dicts are functions whose DOMAIN is the key set.  truncations is never  *)
(* set by the source and is left out.                                      *)
(***************************************************************************)
EXTENDS Integers, Sequences, FiniteSets, TLC

(***************************************************************************)
(* Bounds of the exploration.                                              *)
(***************************************************************************)
\* number of seating orders reset() may draw (out of SeatingTable)
NumSeatings == 2
\* number of vote rounds a game may resolve before proposals stop
MaxVoteRounds == 6

(***************************************************************************)
(* Program constants.                                                      *)
(***************************************************************************)
possible_agents ==
    <<"Merlin", "Morgana", "Percival", "Assassin", "Generic_Good_1", "Generic_Good_2">>

good_team == {"Merlin", "Percival", "Generic_Good_1", "Generic_Good_2"}

evil_team == {"Morgana", "Assassin"}

mission_sizes == <<2, 3, 4, 3, 4>>

NumAgents == 6

None == "None"

Roster == {possible_agents[i] : i \in 1..Len(possible_agents)}

\* roles = {agent: agent}: the agent's name is its role
roles(agent) == agent

(***************************************************************************)
(* Python list helpers.                                                    *)
(***************************************************************************)
Range(s) == {s[i] : i \in 1..Len(s)}

\* list.index(x), 0-based
IndexOf(s, x) == (CHOOSE i \in 1..Len(s) : s[i] = x) - 1

\* list.remove(x)
Remove(s, x) == SelectSeq(s, LAMBDA y : y /= x)

EmptyDict == [x \in {} |-> 0]

Min(a, b) == IF a < b THEN a ELSE b

RECURSIVE SumSet(_, _)
SumSet(f, S) ==
    IF S = {} THEN 0
    ELSE LET x == CHOOSE y \in S : TRUE IN f[x] + SumSet(f, S \ {x})

\* sum(d.values())
SumValues(d) == SumSet(d, DOMAIN d)

\* sum(1 for r in list if r = v)
CountSeq(s, v) == Cardinality({i \in 1..Len(s) : s[i] = v})

\* del d[k]
DelKey(d, k) == [x \in (DOMAIN d) \ {k} |-> d[x]]

(***************************************************************************)
(* Inputs.                                                                 *)
(***************************************************************************)
\* random.shuffle(self.agents): the seatings the model draws from
SeatingTable ==
    << <<"Percival", "Assassin", "Merlin", "Generic_Good_2", "Morgana", "Generic_Good_1">>,
       <<"Morgana", "Generic_Good_1", "Assassin", "Merlin", "Generic_Good_2", "Percival">>,
       <<"Merlin", "Morgana", "Percival", "Assassin", "Generic_Good_1", "Generic_Good_2">>,
       <<"Generic_Good_2", "Generic_Good_1", "Assassin", "Percival", "Morgana", "Merlin">> >>

Seatings == {SeatingTable[i] : i \in 1..Min(NumSeatings, Len(SeatingTable))}

\* MultiBinary(6) team selections: for each team size a team with Evil
\* members (the first k of the roster, as play_game proposes) and an
\* all-Good team, and the empty selection
TeamSelections ==
    { <<1, 1, 0, 0, 0, 0>>, <<1, 0, 1, 0, 0, 0>>,
      <<1, 1, 1, 0, 0, 0>>, <<1, 0, 1, 0, 1, 0>>,
      <<1, 1, 1, 1, 0, 0>>, <<1, 0, 1, 0, 1, 1>>,
      <<0, 0, 0, 0, 0, 0>> }

\* guess vectors submitted in EVIL_DISCUSSION (through team_selection)
GuessVectors == { <<1, 0, 0, 0, 0, 0>>, <<0, 0, 1, 1, 0, 0>> }

\* Discrete(2) value an agent may submit as a vote: three agents approve,
\* two reject and the Assassin votes either way, so that a round has 4 or
\* 3 approvals (both sides of the majority threshold)
VoteChoices(agent) ==
    IF agent = "Assassin" THEN {0, 1}
    ELSE IF agent \in {"Merlin", "Generic_Good_1"} THEN {0}
    ELSE {1}

\* agents that may submit an action with a tag the phase ignores
WrongTagAgents == {"Morgana", "Percival"}

\* assassination targets: the roster, Python's -1, and one past the end
Targets == -1 .. NumAgents

VARIABLES
    agents,                 \* self.agents: the seating order (shrunk by dead steps)
    terminations,           \* self.terminations
    rewards,                \* self.rewards
    cumulative_rewards,     \* self._cumulative_rewards
    mission_number,
    mission_results,
    mission_fail_counts,
    leader_index,
    current_mission_leader,
    proposed_team,
    current_mission_team,
    reject_count,
    evil_guesses_buffer,
    evil_merlin_votes,
    last_mission_outcome,
    all_votes_history,
    who_chose_history,
    vote_buffer,
    quest_buffer,
    phase,
    selector_current,       \* self._agent_selector._current_agent
    agent_selection,
    skip_agent_selection,   \* self._skip_agent_selection (AECEnv)
    err                     \* the exception the last step() raised, or None

vars ==
    << agents, terminations, rewards, cumulative_rewards, mission_number,
       mission_results, mission_fail_counts, leader_index, current_mission_leader,
       proposed_team, current_mission_team, reject_count, evil_guesses_buffer,
       evil_merlin_votes, last_mission_outcome, all_votes_history, who_chose_history,
       vote_buffer, quest_buffer, phase, selector_current, agent_selection,
       skip_agent_selection, err >>

\* the game fields a step may change, apart from the scheduler and err
gameVars ==
    << agents, terminations, rewards, cumulative_rewards, mission_number,
       mission_results, mission_fail_counts, leader_index, current_mission_leader,
       proposed_team, current_mission_team, reject_count, evil_guesses_buffer,
       evil_merlin_votes, last_mission_outcome, all_votes_history, who_chose_history,
       vote_buffer, quest_buffer, phase, skip_agent_selection >>

ZeroRow == [j \in 1..NumAgents |-> 0]

ZeroMatrix == [i \in 1..NumAgents |-> ZeroRow]

(***************************************************************************)
(* reset()                                                                 *)
(***************************************************************************)
\* mutant: the leader index is left at the 0 of line 97
InitialLeader_Zero(seating) == 0

\* self.leader_index = self.possible_agents.index(self.agents[0])
InitialLeader(seating) == IndexOf(possible_agents, seating[1])

Init ==
    /\ agents \in Seatings
    /\ terminations = [a \in Roster |-> FALSE]
    /\ rewards = [a \in Roster |-> 0]
    /\ cumulative_rewards = [a \in Roster |-> 0]
    /\ mission_number = 1
    /\ mission_results = <<>>
    /\ mission_fail_counts = <<>>
    /\ leader_index = InitialLeader(agents)
    /\ current_mission_leader = 0
    /\ proposed_team = <<>>
    /\ current_mission_team = <<>>
    /\ reject_count = 0
    /\ evil_guesses_buffer = EmptyDict
    /\ evil_merlin_votes = ZeroMatrix
    /\ last_mission_outcome = None
    /\ all_votes_history = <<>>
    /\ who_chose_history = <<>>
    /\ vote_buffer = EmptyDict
    /\ quest_buffer = EmptyDict
    /\ phase = "TEAM_PROPOSAL"
    /\ selector_current = 1
    /\ agent_selection = agents[1]
    /\ skip_agent_selection = None
    /\ err = None

(***************************************************************************)
(* Turn scheduler: agent_selector.next() over self.agents.                 *)
(***************************************************************************)
\* mutant: the selector hands out the same seat again
SelectorNextIndex_Stay == selector_current % Len(agents)

\* agent_selector.next(): the index after the one handed out
SelectorNextIndex == (selector_current + 1) % Len(agents)

\* agent_order[_current_agent - 1], where Python's index -1 is the last seat
SelectorNextAgent ==
    IF SelectorNextIndex = 0 THEN agents[Len(agents)] ELSE agents[SelectorNextIndex]

\* self.agent_selection = self._agent_selector.next()
AdvanceSelector ==
    /\ selector_current' = SelectorNextIndex
    /\ agent_selection' = SelectorNextAgent

\* the guard of step() below the dead-step test
Live ==
    /\ agent_selection \in DOMAIN terminations
    /\ ~terminations[agent_selection]

(***************************************************************************)
(* Outcome resolver.                                                       *)
(***************************************************************************)
\* mutant: the Evil branch of the loop writes the Good branch's reward
TerminalRewards_CopyPaste(evilWins) ==
    [a \in DOMAIN rewards |->
        IF a \in Range(agents) THEN (IF evilWins THEN -1 ELSE 1) ELSE rewards[a]]

\* the reward loop of a terminal branch: +1/-1 by faction
TerminalRewards(evilWins) ==
    [a \in DOMAIN rewards |->
        IF a \in Range(agents)
        THEN IF a \in good_team
             THEN (IF evilWins THEN -1 ELSE 1)
             ELSE (IF evilWins THEN 1 ELSE -1)
        ELSE rewards[a]]

\* the terminations loop of a terminal branch
TerminateAll ==
    [a \in DOMAIN terminations |-> IF a \in Range(agents) THEN TRUE ELSE terminations[a]]

\* _accumulate_rewards() applied to the rewards r of this step
Accumulate(r) ==
    [a \in DOMAIN cumulative_rewards |->
        IF a \in DOMAIN r THEN cumulative_rewards[a] + r[a] ELSE cumulative_rewards[a]]

\* majority = len(self.agents) // 2 + 1
Majority == Len(agents) \div 2 + 1

\* mutant: half of the votes approve a team
Approved_Half(approvals) == approvals >= Len(agents) \div 2

\* approvals >= majority
Approved(approvals) == approvals >= Majority

\* mutant: the submitted card is recorded for every team member
QuestAction_AsSubmitted(agent, vote_or_quest) == vote_or_quest

\* the quest card recorded for a team member
QuestAction(agent, vote_or_quest) ==
    IF agent \in good_team THEN 1 ELSE vote_or_quest

\* fail_count = sum(1 for vote in quest_buffer.values() if vote == 0)
FailCount(qb) == Cardinality({a \in DOMAIN qb : qb[a] = 0})

\* mutant: mission 4 tolerates one fail at any table size
MissionSuccess_Mission4(fail_count) ==
    IF mission_number = 4 THEN fail_count < 2 ELSE fail_count = 0

\* mission_success
MissionSuccess(fail_count) ==
    IF Len(possible_agents) >= 7 /\ mission_number = 4
    THEN fail_count < 2
    ELSE fail_count = 0

\* selected_indices = [i for i, selected in enumerate(team_selection) if selected == 1]
SelectedIndices(team_selection) ==
    SelectSeq([i \in 1..Len(team_selection) |-> i - 1],
              LAMBDA i : team_selection[i + 1] = 1)

\* [self.possible_agents[i] for i in selected_indices]
TeamOf(selected_indices) ==
    [k \in 1..Len(selected_indices) |-> possible_agents[selected_indices[k] + 1]]

\* mutant: the leader pointer is rotated twice
NextLeader_Twice(l) == (l + 2) % Len(agents)

\* rotate the leader pointer: (self.leader_index + 1) % len(self.agents)
NextLeader(l) == (l + 1) % Len(agents)

\* if self.reject_count == 5
RejectLimit == 5

\* mutant: the limit test is off by one
RejectOver_OffByOne(rejects) == rejects > RejectLimit

\* whether the rejection that brings the counter to `rejects` ends the game
RejectOver(rejects) == rejects = RejectLimit

\* mutant: the approval does not reset the counter
RejectsAfterApproval_Kept == reject_count

\* self.reject_count = 0 on approval
RejectsAfterApproval == 0

\* mutant: the team test is missing
OnMissionTeam_Anyone(agent) == TRUE

\* if agent not in self.current_mission_team: (negated)
OnMissionTeam(agent) == agent \in Range(current_mission_team)

\* mutant: one submission is enough
AllGuessesIn_First(gb) == Cardinality(DOMAIN gb) >= 1

\* len(self.evil_guesses_buffer) == len(self.evil_team)
AllGuessesIn(gb) == Cardinality(DOMAIN gb) = Cardinality(evil_team)

\* mutant: the mission number is not advanced
NextMission_Stay(m) == m

\* self.mission_number += 1
NextMission(m) == m + 1

\* if good_wins == 3 / elif evil_wins == 3
WinsNeeded == 3

\* tags of the action tuple a phase acts on
TAG_PROPOSE == 0

\* mutant: the vote branch tests the tag of a proposal
TAG_VOTE_AsPropose == TAG_PROPOSE

TAG_VOTE == 1

TAG_QUEST == 2

TAG_GUESS == 3

\* tags the model submits in a phase whose accepted tag is t
TagChoices(agent, t) ==
    IF agent \in WrongTagAgents THEN {t, (t + 1) % 4} ELSE {t}

(***************************************************************************)
(* step(): dead step (self.terminations[agent] is true)                    *)
(***************************************************************************)
\* AECEnv._was_dead_step(action)
StepDead(action) ==
    /\ agent_selection \in DOMAIN terminations
    /\ terminations[agent_selection]
    /\ IF action /= None
       THEN \* ValueError: when an agent is dead, the only valid action is None
            /\ err' = "ValueError"
            /\ UNCHANGED << gameVars, selector_current, agent_selection >>
       ELSE LET rest == Remove(agents, agent_selection)
                term == DelKey(terminations, agent_selection)
                deads == SelectSeq(rest, LAMBDA a : term[a])
            IN  /\ agents' = rest
                /\ terminations' = term
                /\ cumulative_rewards' = DelKey(cumulative_rewards, agent_selection)
                \* del self.rewards[agent], then self._clear_rewards()
                /\ rewards' = [a \in (DOMAIN rewards) \ {agent_selection} |-> 0]
                /\ IF Len(deads) > 0
                   THEN /\ skip_agent_selection' =
                              IF skip_agent_selection = None
                              THEN agent_selection ELSE skip_agent_selection
                        /\ agent_selection' = deads[1]
                   ELSE /\ agent_selection' =
                              IF skip_agent_selection /= None
                              THEN skip_agent_selection ELSE agent_selection
                        /\ skip_agent_selection' = None
                /\ err' = None
                /\ UNCHANGED << mission_number, mission_results, mission_fail_counts,
                                leader_index, current_mission_leader, proposed_team,
                                current_mission_team, reject_count, evil_guesses_buffer,
                                evil_merlin_votes, last_mission_outcome,
                                all_votes_history, who_chose_history, vote_buffer,
                                quest_buffer, phase, selector_current >>

\* step() once every agent has been removed: self.terminations[agent] has no
\* such key
StepNoAgent ==
    /\ agent_selection \notin DOMAIN terminations
    /\ err' = "KeyError"
    /\ UNCHANGED << gameVars, selector_current, agent_selection >>

(***************************************************************************)
(* step(): TEAM_PROPOSAL                                                   *)
(***************************************************************************)
\* an early return: the scheduler advances and nothing else happens
SkipTurn ==
    /\ AdvanceSelector
    /\ err' = None
    /\ UNCHANGED gameVars

\* mutant: the leader index is read as a seat of self.agents, as observe() does
IsLeader_BySeat(agent) == agent = agents[(leader_index % Len(agents)) + 1]

\* the test of line 223: agent == self.possible_agents[self.leader_index]
IsLeader(agent) == agent = possible_agents[leader_index + 1]

\* mutant: a team smaller than required is accepted
SizeOk_AtMost(n) == n <= mission_sizes[mission_number]

\* the test of line 235: len(selected_indices) == required_size
SizeOk(n) == n = mission_sizes[mission_number]

StepProposal(action_type, team_selection) ==
    /\ Live
    /\ phase = "TEAM_PROPOSAL"
    /\ IF ~IsLeader(agent_selection)
       THEN SkipTurn
       ELSE IF action_type = TAG_PROPOSE
               /\ ~SizeOk(Len(SelectedIndices(team_selection)))
       THEN SkipTurn
       ELSE /\ IF action_type = TAG_PROPOSE
               THEN /\ proposed_team' = TeamOf(SelectedIndices(team_selection))
                    /\ current_mission_leader' = leader_index
                    /\ phase' = "TEAM_VOTE"
                    /\ vote_buffer' = EmptyDict
               ELSE UNCHANGED << proposed_team, current_mission_leader, phase, vote_buffer >>
            /\ AdvanceSelector
            /\ cumulative_rewards' = Accumulate(rewards)
            /\ err' = None
            /\ UNCHANGED << agents, terminations, rewards, mission_number, mission_results,
                            mission_fail_counts, leader_index, current_mission_team,
                            reject_count, evil_guesses_buffer, evil_merlin_votes,
                            last_mission_outcome, all_votes_history, who_chose_history,
                            quest_buffer, skip_agent_selection >>

(***************************************************************************)
(* step(): TEAM_VOTE                                                       *)
(***************************************************************************)
\* mutant: the rejected team stays proposed
ProposedAfterReject_Kept == proposed_team

\* self.proposed_team = [] of line 294
ProposedAfterReject == <<>>

\* mutant: an agent's first vote of the round is the one that stays
RecordVote_KeepFirst(buffer, agent, vote_or_quest) ==
    buffer @@ (agent :> vote_or_quest)

\* self.vote_buffer[agent] = vote_or_quest
RecordVote(buffer, agent, vote_or_quest) ==
    (agent :> vote_or_quest) @@ buffer

\* mutant: the votes are put on record in roster order
VotesInOrder_Roster(buffer) ==
    [i \in 1..Len(agents) |-> buffer[possible_agents[i]]]

\* for agent_name in self.agents: ...append(self.vote_buffer[agent_name])
VotesInOrder(buffer) ==
    [i \in 1..Len(agents) |-> buffer[agents[i]]]

StepVote(action_type, vote_or_quest) ==
    /\ Live
    /\ phase = "TEAM_VOTE"
    /\ LET vb == IF action_type = TAG_VOTE
                 THEN RecordVote(vote_buffer, agent_selection, vote_or_quest)
                 ELSE vote_buffer
           full == Cardinality(DOMAIN vb) = Len(agents)
           approved == Approved(SumValues(vb))
           rejects == reject_count + 1
           over == RejectOver(rejects)
           rew == IF full /\ ~approved /\ over THEN TerminalRewards(TRUE) ELSE rewards
       IN  /\ vote_buffer' = vb
           /\ AdvanceSelector
           /\ all_votes_history' =
                  IF full
                  THEN all_votes_history \o VotesInOrder(vb)
                  ELSE all_votes_history
           /\ IF full /\ approved
              THEN /\ current_mission_team' = proposed_team
                   /\ reject_count' = RejectsAfterApproval
                   /\ phase' = "QUEST"
                   /\ quest_buffer' = EmptyDict
                   /\ UNCHANGED << terminations, leader_index, proposed_team >>
              ELSE IF full /\ over
              THEN /\ reject_count' = rejects
                   /\ terminations' = TerminateAll
                   /\ UNCHANGED << current_mission_team, phase, quest_buffer,
                                   leader_index, proposed_team >>
              ELSE IF full
              THEN /\ reject_count' = rejects
                   /\ leader_index' = NextLeader(leader_index)
                   /\ proposed_team' = ProposedAfterReject
                   /\ phase' = "TEAM_PROPOSAL"
                   /\ UNCHANGED << current_mission_team, quest_buffer, terminations >>
              ELSE UNCHANGED << current_mission_team, reject_count, phase, quest_buffer,
                                terminations, leader_index, proposed_team >>
           /\ rewards' = rew
           /\ cumulative_rewards' = Accumulate(rew)
           /\ err' = None
           /\ UNCHANGED << agents, mission_number, mission_results, mission_fail_counts,
                           current_mission_leader, evil_guesses_buffer, evil_merlin_votes,
                           last_mission_outcome, who_chose_history, skip_agent_selection >>

(***************************************************************************)
(* step(): QUEST                                                           *)
(***************************************************************************)
\* mutant: the leader is put on record after the rotation
RecordedLeader_Next == NextLeader(leader_index)

\* self.who_chose_history.append(self.current_mission_leader)
RecordedLeader == current_mission_leader

StepQuest(action_type, vote_or_quest) ==
    /\ Live
    /\ phase = "QUEST"
    /\ IF ~OnMissionTeam(agent_selection)
       THEN SkipTurn
       ELSE LET qb == IF action_type = TAG_QUEST
                      THEN (agent_selection :> QuestAction(agent_selection, vote_or_quest))
                               @@ quest_buffer
                      ELSE quest_buffer
                full == Cardinality(DOMAIN qb) = Len(current_mission_team)
                fail_count == FailCount(qb)
                mission_success == MissionSuccess(fail_count)
                results == Append(mission_results, mission_success)
                good_wins == CountSeq(results, TRUE)
                evil_wins == CountSeq(results, FALSE)
                rew == IF full /\ good_wins /= WinsNeeded /\ evil_wins = WinsNeeded
                       THEN TerminalRewards(TRUE) ELSE rewards
            IN  /\ quest_buffer' = qb
                /\ AdvanceSelector
                /\ IF full
                   THEN /\ mission_results' = results
                        /\ mission_fail_counts' = Append(mission_fail_counts, fail_count)
                        /\ last_mission_outcome' =
                               << mission_number, mission_success, fail_count >>
                        /\ who_chose_history' =
                               Append(who_chose_history, RecordedLeader)
                   ELSE UNCHANGED << mission_results, mission_fail_counts,
                                     last_mission_outcome, who_chose_history >>
                /\ IF full /\ good_wins = WinsNeeded
                   THEN /\ phase' = "EVIL_DISCUSSION"
                        /\ evil_guesses_buffer' = EmptyDict
                        /\ UNCHANGED << terminations, mission_number, leader_index,
                                        proposed_team, current_mission_team, reject_count >>
                   ELSE IF full /\ evil_wins = WinsNeeded
                   THEN /\ terminations' = TerminateAll
                        /\ UNCHANGED << phase, evil_guesses_buffer, mission_number,
                                        leader_index, proposed_team, current_mission_team,
                                        reject_count >>
                   ELSE IF full
                   THEN /\ mission_number' = NextMission(mission_number)
                        /\ leader_index' = NextLeader(leader_index)
                        /\ proposed_team' = <<>>
                        /\ current_mission_team' = <<>>
                        /\ reject_count' = 0
                        /\ phase' = "TEAM_PROPOSAL"
                        /\ UNCHANGED << terminations, evil_guesses_buffer >>
                   ELSE UNCHANGED << phase, evil_guesses_buffer, terminations,
                                     mission_number, leader_index, proposed_team,
                                     current_mission_team, reject_count >>
                /\ rewards' = rew
                /\ cumulative_rewards' = Accumulate(rew)
                /\ err' = None
                /\ UNCHANGED << agents, current_mission_leader, evil_merlin_votes,
                                all_votes_history, vote_buffer, skip_agent_selection >>

(***************************************************************************)
(* step(): EVIL_DISCUSSION                                                 *)
(***************************************************************************)
\* self.evil_merlin_votes[self.possible_agents.index(agent_name)] = probabilities
StoreGuesses(gb) ==
    [i \in 1..NumAgents |->
        IF possible_agents[i] \in DOMAIN gb THEN gb[possible_agents[i]]
        ELSE evil_merlin_votes[i]]

StepEvilDiscussion(action_type, team_selection) ==
    /\ Live
    /\ phase = "EVIL_DISCUSSION"
    /\ IF agent_selection \notin evil_team
       THEN SkipTurn
       ELSE LET gb == IF action_type = TAG_GUESS
                      THEN (agent_selection :> team_selection) @@ evil_guesses_buffer
                      ELSE evil_guesses_buffer
                full == AllGuessesIn(gb)
            IN  /\ evil_guesses_buffer' = gb
                /\ AdvanceSelector
                /\ IF full
                   THEN /\ evil_merlin_votes' = StoreGuesses(gb)
                        /\ phase' = "ASSASSINATION"
                   ELSE UNCHANGED << evil_merlin_votes, phase >>
                /\ cumulative_rewards' = Accumulate(rewards)
                /\ err' = None
                /\ UNCHANGED << agents, terminations, rewards, mission_number,
                                mission_results, mission_fail_counts, leader_index,
                                current_mission_leader, proposed_team,
                                current_mission_team, reject_count, last_mission_outcome,
                                all_votes_history, who_chose_history, vote_buffer,
                                quest_buffer, skip_agent_selection >>

(***************************************************************************)
(* step(): ASSASSINATION                                                   *)
(***************************************************************************)
\* whether list[i] is defined in Python (negative indices count from the end)
PyInRange(s, i) == -Len(s) <= i /\ i < Len(s)

\* list[i] in Python
PyAt(s, i) == IF i < 0 THEN s[Len(s) + i + 1] ELSE s[i + 1]

\* mutant: the target index is read in the seating order
AssassinHits_Seat(target_player) ==
    roles(PyAt(agents, target_player)) = "Merlin"

\* target_role == "Merlin": whether the assassination makes Evil win
AssassinHits(target_player) ==
    roles(PyAt(possible_agents, target_player)) = "Merlin"

StepAssassination(action_type, target_player) ==
    /\ Live
    /\ phase = "ASSASSINATION"
    /\ IF roles(agent_selection) /= "Assassin"
       THEN SkipTurn
       ELSE IF action_type = TAG_GUESS /\ ~PyInRange(possible_agents, target_player)
       THEN \* self.possible_agents[target_player] raises before any assignment
            /\ err' = "IndexError"
            /\ UNCHANGED << gameVars, selector_current, agent_selection >>
       ELSE LET rew == IF action_type = TAG_GUESS
                       THEN TerminalRewards(AssassinHits(target_player))
                       ELSE rewards
            IN  /\ terminations' =
                       IF action_type = TAG_GUESS THEN TerminateAll ELSE terminations
                /\ rewards' = rew
                /\ AdvanceSelector
                /\ cumulative_rewards' = Accumulate(rew)
                /\ err' = None
                /\ UNCHANGED << agents, mission_number, mission_results,
                                mission_fail_counts, leader_index, current_mission_leader,
                                proposed_team, current_mission_team, reject_count,
                                evil_guesses_buffer, evil_merlin_votes,
                                last_mission_outcome, all_votes_history,
                                who_chose_history, vote_buffer, quest_buffer, phase,
                                skip_agent_selection >>

(***************************************************************************)
(* The specification: reset(), then any sequence of step() calls.          *)
(***************************************************************************)
\* the selections a leader may submit: valid proposals stop once
\* MaxVoteRounds rounds are on record
ProposableSelections ==
    IF Len(all_votes_history) < NumAgents * MaxVoteRounds
    THEN TeamSelections
    ELSE {ZeroRow}

Next ==
    \/ \E action \in {None, "action"} : StepDead(action)
    \/ StepNoAgent
    \/ \E action_type \in {TAG_PROPOSE, TAG_VOTE}, team_selection \in ProposableSelections :
           StepProposal(action_type, team_selection)
    \/ \E action_type \in TagChoices(agent_selection, TAG_VOTE),
          vote_or_quest \in VoteChoices(agent_selection) :
           StepVote(action_type, vote_or_quest)
    \/ \E action_type \in TagChoices(agent_selection, TAG_QUEST), vote_or_quest \in {0, 1} :
           StepQuest(action_type, vote_or_quest)
    \/ \E action_type \in TagChoices(agent_selection, TAG_GUESS),
          team_selection \in GuessVectors :
           StepEvilDiscussion(action_type, team_selection)
    \/ \E action_type \in {TAG_GUESS, TAG_PROPOSE}, target_player \in Targets :
           StepAssassination(action_type, target_player)

Spec == Init /\ [][Next]_vars

(***************************************************************************)
(* A game driven as play_game() drives it: every agent, on its turn,       *)
(* submits an action that is valid for the phase, a terminated agent       *)
(* submits None, and the loop calls step() for as long as an agent is      *)
(* left.                                                                   *)
(***************************************************************************)
\* votes of the driven game: once MaxVoteRounds rounds are on record the
\* Assassin approves, which bounds the vote history
ValidVotes(agent) ==
    IF agent = "Assassin" /\ Len(all_votes_history) >= NumAgents * MaxVoteRounds
    THEN {1}
    ELSE VoteChoices(agent)

\* team selections of the size the current mission requires
ValidSelections ==
    { sel \in TeamSelections : CountSeq(sel, 1) = mission_sizes[mission_number] }

ValidNext ==
    \/ StepDead(None)
    \/ \E team_selection \in ValidSelections : StepProposal(TAG_PROPOSE, team_selection)
    \/ \E vote_or_quest \in ValidVotes(agent_selection) : StepVote(TAG_VOTE, vote_or_quest)
    \/ \E vote_or_quest \in {0, 1} : StepQuest(TAG_QUEST, vote_or_quest)
    \/ \E team_selection \in GuessVectors : StepEvilDiscussion(TAG_GUESS, team_selection)
    \/ \E target_player \in 0..(NumAgents - 1) : StepAssassination(TAG_GUESS, target_player)

\* the driving loop keeps stepping: a step that is possible is eventually taken
LiveSpec == Init /\ [][ValidNext]_vars /\ WF_vars(ValidNext)

(***************************************************************************)
(* The longest games: the table rejects four teams of every mission        *)
(* before it may approve the fifth; teams and quest cards are free.        *)
(***************************************************************************)
\* the Assassin, whose vote decides a round, rejects until four teams of
\* the mission are rejected and then votes either way
LongVotes(agent) ==
    IF agent = "Assassin"
    THEN (IF reject_count < RejectLimit - 1 THEN {0} ELSE {0, 1})
    ELSE VoteChoices(agent)

LongNext ==
    \/ StepDead(None)
    \/ \E team_selection \in ValidSelections : StepProposal(TAG_PROPOSE, team_selection)
    \/ \E action_type \in TagChoices(agent_selection, TAG_VOTE),
          vote_or_quest \in LongVotes(agent_selection) :
           StepVote(action_type, vote_or_quest)
    \/ \E vote_or_quest \in {0, 1} : StepQuest(TAG_QUEST, vote_or_quest)
    \/ \E team_selection \in GuessVectors : StepEvilDiscussion(TAG_GUESS, team_selection)
    \/ \E target_player \in 0..(NumAgents - 1) : StepAssassination(TAG_GUESS, target_player)

LongSpec == Init /\ [][LongNext]_vars

(***************************************************************************)
(* observe(agent): the per-agent view, for an agent of self.agents.        *)
(***************************************************************************)
\* relative_order = self.agents[agent_idx:] + self.agents[:agent_idx],
\* for a seating list given as an argument
relative_order_of(seating, agent) ==
    LET agent_idx == IndexOf(seating, agent)
    IN  SubSeq(seating, agent_idx + 1, Len(seating)) \o SubSeq(seating, 1, agent_idx)

relative_order(agent) == relative_order_of(agents, agent)

\* if agent in self.evil_team or agent_role == "Merlin"
SeesSpies(agent) == agent \in evil_team \/ roles(agent) = "Merlin"

\* mutant: the faction test on the guess table is missing
SeesGuesses_Anyone(agent) == TRUE

\* if agent in self.evil_team (the guess table)
SeesGuesses(agent) == agent \in evil_team

\* mutant: Percival's view marks Merlin only
PercivalSees_MerlinOnly(role) == role = "Merlin"

\* if self.roles[other_agent] in ["Merlin", "Morgana"]
PercivalSees(role) == role \in {"Merlin", "Morgana"}

\* sizes of the padded history fields of the view
PriorVotesSize == 150
PriorLeadersSize == 25
MissionSlots == 5

\* "reject_count": Discrete(5), the values 0..4
RejectCountSpace == 5

\* "known_spies"
known_spies_of(seating, agent) ==
    LET ro == relative_order_of(seating, agent)
    IN  [i \in 1..NumAgents |->
            IF SeesSpies(agent) /\ i <= Len(ro) /\ ro[i] \in evil_team THEN 1 ELSE 0]

known_spies(agent) == known_spies_of(agents, agent)

\* "percival_view"
percival_view_of(seating, agent) ==
    LET ro == relative_order_of(seating, agent)
    IN  [i \in 1..NumAgents |->
            IF roles(agent) = "Percival" /\ i <= Len(ro) /\ PercivalSees(roles(ro[i]))
            THEN 1 ELSE 0]

percival_view(agent) == percival_view_of(agents, agent)

\* "all_prior_votes": the flat vote history, zero padded
all_prior_votes ==
    [i \in 1..PriorVotesSize |->
        IF i <= Min(Len(all_votes_history), PriorVotesSize) THEN all_votes_history[i] ELSE 0]

\* "who_choose_prior": the stored leader index is used as a seat index
who_choose_prior_of(seating, agent) ==
    LET ro == relative_order_of(seating, agent)
    IN  [i \in 1..PriorLeadersSize |->
            IF i <= Len(who_chose_history)
            THEN IndexOf(ro, seating[(who_chose_history[i] % Len(seating)) + 1])
            ELSE 0]

\* "fails_per_mission"
fails_per_mission ==
    [i \in 1..MissionSlots |->
        IF i <= Len(mission_fail_counts) THEN mission_fail_counts[i] ELSE 0]

\* "whos_winning": 2 for a success, 0 for a failure, 1 for a mission not played
whos_winning ==
    [i \in 1..MissionSlots |->
        IF i <= Len(mission_results)
        THEN (IF mission_results[i] THEN 2 ELSE 0)
        ELSE 1]

\* "current_proposed_team"
current_team_of(seating, agent) ==
    LET ro == relative_order_of(seating, agent)
    IN  [i \in 1..NumAgents |->
            IF i <= Len(ro) /\ ro[i] \in Range(proposed_team) THEN 1 ELSE 0]

\* leader_agent = self.agents[self.leader_index % len(self.agents)]
leader_agent_of(seating) == seating[(leader_index % Len(seating)) + 1]

\* "who_choose_current_mission"
relative_leader_idx_of(seating, agent) ==
    IndexOf(relative_order_of(seating, agent), leader_agent_of(seating))

\* "evil_merlin_guesses"
evil_guesses_of(seating, agent) ==
    LET ro == relative_order_of(seating, agent)
    IN  [i \in 1..NumAgents |-> [j \in 1..NumAgents |->
            IF SeesGuesses(agent) /\ i <= Len(ro) /\ j <= Len(ro)
            THEN evil_merlin_votes[IndexOf(seating, ro[i]) + 1][IndexOf(seating, ro[j]) + 1]
            ELSE 0]]

evil_guesses(agent) == evil_guesses_of(agents, agent)

\* the dictionary returned by observe(agent)
observe_of(seating, agent) ==
    [ known_spies                |-> known_spies_of(seating, agent),
      percival_view              |-> percival_view_of(seating, agent),
      all_prior_votes            |-> all_prior_votes,
      who_choose_prior_mission   |-> who_choose_prior_of(seating, agent),
      number_of_fails_per_prior_missions |-> fails_per_mission,
      whos_winning               |-> whos_winning,
      current_proposed_team      |-> current_team_of(seating, agent),
      who_choose_current_mission |-> relative_leader_idx_of(seating, agent),
      did_i_choose_current_team  |-> IF leader_agent_of(seating) = agent THEN 1 ELSE 0,
      mission_number             |-> mission_number,
      reject_count               |-> reject_count,
      evil_merlin_guesses        |-> evil_guesses_of(seating, agent) ]

observe(agent) == observe_of(agents, agent)

(***************************************************************************)
(* Vocabulary of the properties.                                           *)
(***************************************************************************)
\* the reward map of a finished game
FactionRewards(evilWins) ==
    [a \in Roster |->
        IF (a \in evil_team) = evilWins THEN 1 ELSE -1]

AllTerminated ==
    /\ DOMAIN terminations = Roster
    /\ \A a \in Roster : terminations[a]

NoneLive == \A a \in DOMAIN terminations : terminations[a]

\* the step resolves a vote round / a quest
RoundResolved == Len(all_votes_history') = Len(all_votes_history) + 6

QuestResolved == Len(mission_results') = Len(mission_results) + 1

\* approve votes among the last six votes on record
LastApprovals(h) == Cardinality({i \in (Len(h) - 5)..Len(h) : h[i] = 1})

RoundApproved ==
    Live /\ phase = "TEAM_VOTE" /\ RoundResolved /\ LastApprovals(all_votes_history') >= 4

RoundRejected ==
    Live /\ phase = "TEAM_VOTE" /\ RoundResolved /\ LastApprovals(all_votes_history') < 4

Last(s) == s[Len(s)]

Successes(r) == CountSeq(r, TRUE)

Failures(r) == CountSeq(r, FALSE)

(***************************************************************************)
(* C1                                                                      *)
(***************************************************************************)
C1_State ==
    /\ \A a, b \in DOMAIN terminations : terminations[a] = terminations[b]
    /\ \A g \in good_team \cap DOMAIN rewards, e \in evil_team \cap DOMAIN rewards :
           /\ rewards[g] * rewards[e] <= 0
           /\ cumulative_rewards[g] * cumulative_rewards[e] <= 0
           /\ (rewards[g] = 0) = (rewards[e] = 0)

C1_Step ==
    /\ (Live /\ terminations' /= terminations) =>
           /\ AllTerminated'
           /\ rewards' \in {FactionRewards(TRUE), FactionRewards(FALSE)}
    /\ (RoundRejected /\ reject_count = 4) =>
           (AllTerminated' /\ rewards' = FactionRewards(TRUE))
    /\ (Live /\ phase = "QUEST" /\ QuestResolved /\ Failures(mission_results') = 3) =>
           (AllTerminated' /\ rewards' = FactionRewards(TRUE))
    /\ \A t \in 0..5 :
           (agent_selection = "Assassin" /\ StepAssassination(TAG_GUESS, t)) =>
               AllTerminated'

\* C1: every terminal transition of step() (fifth rejection, third failed
\* mission, assassination) terminates every agent and gives the two factions
\* exactly opposite rewards (+1 to the winners, -1 to the losers); in no
\* reachable state are only some agents terminated or do both factions hold
\* rewards of the same sign.
C1_TerminalOutcome == []C1_State /\ [][C1_Step]_vars

\* a finished game that Good won: only the assassination branch produces it
C1_Witness ==
    /\ AllTerminated
    /\ rewards = FactionRewards(FALSE)

(***************************************************************************)
(* C2                                                                      *)
(***************************************************************************)
C2_Step ==
    /\ (RoundRejected /\ reject_count = 4) =>
           /\ reject_count' = 5
           /\ AllTerminated'
           /\ rewards' = FactionRewards(TRUE)
           /\ leader_index' = leader_index
           /\ mission_number' = mission_number
    /\ reject_count = 5 => reject_count' = 5

\* C2: the rejected vote round that brings the reject counter to 5 ends the
\* game in the same step with Evil winning, at any mission number and any
\* mission tally; that step leaves the leader pointer and the mission number
\* alone, and the counter stays at 5 from then on.
C2_FifthRejection == [][C2_Step]_vars

\* five rejections in a row during mission 2, after a played first mission
C2_Witness ==
    /\ reject_count = 5
    /\ mission_number = 2
    /\ Len(mission_results) = 1
    /\ AllTerminated
    /\ rewards = FactionRewards(TRUE)

(***************************************************************************)
(* C3                                                                      *)
(***************************************************************************)
C3_State ==
    /\ reject_count \in 0..5
    /\ reject_count = 5 => NoneLive

C3_Step ==
    /\ RoundApproved => reject_count' = 0
    /\ RoundRejected => reject_count' = reject_count + 1
    /\ mission_number' /= mission_number => reject_count' = 0
    /\ (Live /\ phase = "TEAM_VOTE" /\ ~RoundResolved) => reject_count' = reject_count

\* C3: the reject counter is always in 0..5; it is 0 right after an approved
\* vote round and after a mission advance; a rejected round adds exactly 1;
\* it is 5 only when no agent is live any more.
C3_RejectCounter == []C3_State /\ [][C3_Step]_vars

\* an approval that resets a non-zero counter: the second round of mission 1
\* is approved after the first was rejected
C3_Witness ==
    /\ phase = "QUEST"
    /\ reject_count = 0
    /\ Len(all_votes_history) = 12
    /\ mission_results = <<>>

(***************************************************************************)
(* C4                                                                      *)
(***************************************************************************)
C4_State ==
    \A a \in DOMAIN quest_buffer : a \in good_team => quest_buffer[a] = 1

C4_Step ==
    /\ \A v \in {0, 1} :
           (agent_selection \in good_team /\ OnMissionTeam(agent_selection)
               /\ StepQuest(TAG_QUEST, v)) =>
               quest_buffer'[agent_selection] = 1
    /\ (Live /\ phase = "QUEST" /\ QuestResolved
           /\ Range(current_mission_team) \cap evil_team = {}) =>
           /\ Last(mission_fail_counts') = 0
           /\ Last(mission_results') = TRUE

\* C4: whatever value (0 or 1) a Good agent on the mission team submits in
\* QUEST, the quest buffer records success (1) for it; so a mission whose
\* team holds no Evil agent resolves with fail count 0 and as a success.
C4_GoodNeverFails == []C4_State /\ [][C4_Step]_vars

\* a resolved mission of an all-Good team, its quest cards still in the buffer
C4_Witness ==
    /\ phase = "TEAM_PROPOSAL"
    /\ Len(mission_results) >= 1
    /\ Last(mission_results) = TRUE
    /\ DOMAIN quest_buffer /= {}
    /\ DOMAIN quest_buffer \subseteq good_team

(***************************************************************************)
(* C5                                                                      *)
(***************************************************************************)
\* C5: in the six-player game every recorded mission, whatever its number
\* (mission 4 included), is a success exactly when its fail count is 0: one
\* fail card makes it fail.
C5_SuccessIffNoFail ==
    /\ Len(mission_results) = Len(mission_fail_counts)
    /\ \A i \in 1..Len(mission_results) :
           mission_results[i] = (mission_fail_counts[i] = 0)

\* mission 4 failed by a single fail card
C5_Witness ==
    /\ Len(mission_results) >= 4
    /\ mission_fail_counts[4] = 1
    /\ mission_results[4] = FALSE

(***************************************************************************)
(* C6                                                                      *)
(***************************************************************************)
C6_Step ==
    (Live /\ phase = "QUEST" /\ QuestResolved) =>
        /\ DOMAIN quest_buffer' = Range(current_mission_team)
        /\ Cardinality(DOMAIN quest_buffer') = Len(current_mission_team)
        /\ Len(current_mission_team) = mission_sizes[mission_number]
        /\ Last(mission_fail_counts') \in 0..Len(current_mission_team)
        /\ Last(mission_fail_counts') =
               Cardinality({a \in DOMAIN quest_buffer' : quest_buffer'[a] = 0})

\* C6: when a quest resolves, the quest buffer holds exactly one entry for
\* each member of the frozen mission team and none for anyone else, and the
\* recorded fail count lies between 0 and the team size.
C6_QuestBufferIsTeam == [][C6_Step]_vars

\* a resolved mission 3 (team of four) with both Evil agents failing it
C6_Witness ==
    /\ Len(mission_fail_counts) = 3
    /\ mission_fail_counts[3] = 2
    /\ Cardinality(DOMAIN quest_buffer) = 4

(***************************************************************************)
(* C7                                                                      *)
(***************************************************************************)
C7_Step ==
    (Live /\ phase = "QUEST" /\ QuestResolved
        /\ Successes(mission_results') < 3 /\ Failures(mission_results') < 3) =>
        /\ mission_number' = mission_number + 1
        /\ leader_index' = (leader_index + 1) % 6
        /\ reject_count' = 0
        /\ proposed_team' = <<>>
        /\ current_mission_team' = <<>>
        /\ phase' = "TEAM_PROPOSAL"

C7_State ==
    (Len(mission_results) = 1 /\ mission_fail_counts = <<0>>) =>
        /\ mission_results = <<TRUE>>
        /\ mission_number = 2
        /\ phase \in {"TEAM_PROPOSAL", "TEAM_VOTE", "QUEST"}

\* C7: a quest that resolves with neither faction at 3 mission wins adds 1 to
\* the mission number, moves the leader pointer to (leader+1) mod 6, resets
\* the reject counter, empties the proposed and the mission team and returns
\* to TEAM_PROPOSAL; after a first mission with no fail card the results are
\* [True], the fail count 0 and the mission number 2.
C7_MissionAdvance == []C7_State /\ [][C7_Step]_vars

\* right after a successful first mission
C7_Witness ==
    /\ mission_results = <<TRUE>>
    /\ mission_fail_counts = <<0>>
    /\ mission_number = 2
    /\ phase = "TEAM_PROPOSAL"
    /\ proposed_team = <<>>
    /\ current_mission_team = <<>>
    /\ all_votes_history /= <<>>
    /\ Len(all_votes_history) = 6

(***************************************************************************)
(* C8                                                                      *)
(***************************************************************************)
C8_State ==
    /\ phase = "EVIL_DISCUSSION" =>
           /\ ~({"Morgana", "Assassin"} \subseteq DOMAIN evil_guesses_buffer)
           /\ \A a \in Roster : a \in DOMAIN terminations /\ ~terminations[a]
    /\ phase = "ASSASSINATION" => DOMAIN evil_guesses_buffer = {"Morgana", "Assassin"}

C8_Step ==
    /\ (Live /\ phase = "QUEST" /\ QuestResolved /\ Successes(mission_results') = 3) =>
           /\ phase' = "EVIL_DISCUSSION"
           /\ terminations' = terminations
           /\ rewards' = rewards
    /\ (Live /\ phase = "EVIL_DISCUSSION") =>
           /\ terminations' = terminations
           /\ \A a \in DOMAIN rewards' : rewards'[a] = 0 /\ cumulative_rewards'[a] = 0
           /\ phase' = IF {"Morgana", "Assassin"} \subseteq DOMAIN evil_guesses_buffer'
                       THEN "ASSASSINATION" ELSE "EVIL_DISCUSSION"

\* C8: the third successful mission moves the phase to EVIL_DISCUSSION and
\* terminates nobody; the phase stays EVIL_DISCUSSION until Morgana and the
\* Assassin have both submitted a guess vector and then becomes ASSASSINATION;
\* no step of EVIL_DISCUSSION sets a terminated flag or a non-zero reward.
C8_EvilDiscussion == []C8_State /\ [][C8_Step]_vars

\* the discussion is over, the guesses are stored, nobody is terminated
C8_Witness ==
    /\ phase = "ASSASSINATION"
    /\ \A a \in Roster : ~terminations[a]
    /\ evil_merlin_votes /= ZeroMatrix

(***************************************************************************)
(* C9                                                                      *)
(***************************************************************************)
C9_Step ==
    /\ \A t \in 0..5 :
           (agent_selection = "Assassin" /\ StepAssassination(TAG_GUESS, t)) =>
               /\ AllTerminated'
               /\ rewards' = FactionRewards(possible_agents[t + 1] = "Merlin")
    /\ (Live /\ phase = "ASSASSINATION" /\ agent_selection /= "Assassin") =>
           /\ terminations' = terminations
           /\ rewards' = rewards

\* C9: in ASSASSINATION an assassinate action of the Assassin with a target
\* in the roster ends the game in that step: Evil wins if the target's role
\* is Merlin, Good wins for any other target (the Assassin and Morgana
\* included); an action of any other agent never ends the game.
C9_Assassination == [][C9_Step]_vars

\* the Assassin named Merlin: the game ended in ASSASSINATION with Evil winning
C9_Witness ==
    /\ phase = "ASSASSINATION"
    /\ AllTerminated
    /\ rewards = FactionRewards(TRUE)

(***************************************************************************)
(* C10                                                                     *)
(***************************************************************************)
\* the seat of `other` counted from the seat of `agent`
RelPos(agent, other) ==
    (IndexOf(agents, other) - IndexOf(agents, agent)) % Len(agents)

\* C10: for every seated requester, known_spies is all-zero unless the
\* requester is Evil or Merlin, and then it has a 1 exactly at the
\* seat-relative positions of Morgana and the Assassin; evil_merlin_guesses
\* is all-zero unless the requester is Evil, also once guesses are stored.
C10_HiddenInformation ==
    \A agent \in Range(agents) :
        /\ (agent \notin {"Morgana", "Assassin", "Merlin"}) =>
               known_spies(agent) = ZeroRow
        /\ (agent \in {"Morgana", "Assassin", "Merlin"}) =>
               \A i \in 1..6 :
                   (known_spies(agent)[i] = 1) =
                       (\E e \in {"Morgana", "Assassin"} \cap Range(agents) :
                            RelPos(agent, e) = i - 1)
        /\ \A i \in 1..6 : known_spies(agent)[i] \in {0, 1}
        /\ (agent \notin {"Morgana", "Assassin"}) =>
               evil_guesses(agent) = ZeroMatrix

\* guesses are stored, Merlin sees the spies but not the guess table, and
\* the Assassin sees a non-zero table
C10_Witness ==
    /\ phase = "ASSASSINATION"
    /\ Len(agents) = 6
    /\ evil_merlin_votes /= ZeroMatrix
    /\ known_spies("Merlin") /= ZeroRow
    /\ evil_guesses("Merlin") = ZeroMatrix
    /\ evil_guesses("Assassin") /= ZeroMatrix
    /\ known_spies("Percival") = ZeroRow

(***************************************************************************)
(* C11.  The percival_view field of a view is all zero for every agent     *)
(* but Percival.  For Percival it holds a 1 exactly at the positions,      *)
(* counted from Percival's own seat, of Merlin and of Morgana among the    *)
(* agents still seated, and 0 elsewhere; the field is the same when        *)
(* Merlin and Morgana exchange seats, so it does not tell them apart.      *)
(***************************************************************************)
\* the seating with the seats of two agents exchanged
SwapSeats(seating, a, b) ==
    [i \in 1..Len(seating) |->
        IF seating[i] = a THEN b ELSE IF seating[i] = b THEN a ELSE seating[i]]

C11_PercivalView ==
    /\ \A agent \in Range(agents) \ {"Percival"} : percival_view(agent) = ZeroRow
    /\ "Percival" \in Range(agents) =>
          /\ \A i \in 1..NumAgents :
                percival_view("Percival")[i] = 1
                   <=> \E other \in Range(agents) \cap {"Merlin", "Morgana"} :
                          RelPos("Percival", other) = i - 1
          /\ \A i \in 1..NumAgents : percival_view("Percival")[i] \in {0, 1}
          /\ percival_view_of(SwapSeats(agents, "Merlin", "Morgana"), "Percival")
                = percival_view("Percival")

\* Percival is asked for a view in the middle of a quest, both Merlin and
\* Morgana seated
C11_Witness ==
    /\ phase = "QUEST"
    /\ {"Percival", "Merlin", "Morgana"} \subseteq Range(agents)
    /\ SumValues(percival_view("Percival")) = 2
    /\ RelPos("Percival", "Merlin") /= RelPos("Percival", "Morgana")

(***************************************************************************)
(* C12.  A view depends on the seating only through the cyclic order seen  *)
(* from the requester: in every reachable state, rotating the seating      *)
(* list by any number of seats while keeping every other field leaves      *)
(* observe(agent) the same for every seated agent, in every field.         *)
(***************************************************************************)
\* the seating list rotated by r seats, every agent keeping its neighbours
RotateSeats(seating, r) ==
    [i \in 1..Len(seating) |-> seating[((i - 1 + r) % Len(seating)) + 1]]

C12_RotationAnonymity ==
    \A agent \in Range(agents) : \A r \in 1..(Len(agents) - 1) :
        observe_of(RotateSeats(agents, r), agent) = observe(agent)

(***************************************************************************)
(* C13.  A step of a non-terminated agent that is not the one the phase    *)
(* waits for (not the leader in TEAM_PROPOSAL, not on the mission team in  *)
(* QUEST, not Evil in EVIL_DISCUSSION, not the Assassin in ASSASSINATION)  *)
(* changes nothing but the scheduler, whatever the action: phase, mission  *)
(* number, leader index, rejection counter, buffers, ledger, vote history, *)
(* rewards and terminated flags are all kept and no error is raised.       *)
(***************************************************************************)
OutOfTurn ==
    \/ phase = "TEAM_PROPOSAL" /\ agent_selection /= possible_agents[leader_index + 1]
    \/ phase = "QUEST" /\ agent_selection \notin Range(current_mission_team)
    \/ phase = "EVIL_DISCUSSION" /\ agent_selection \notin evil_team
    \/ phase = "ASSASSINATION" /\ roles(agent_selection) /= "Assassin"

C13_Step ==
    (Live /\ OutOfTurn) =>
        /\ UNCHANGED gameVars
        /\ err' = None
        /\ agent_selection' /= agent_selection

C13_OutOfTurnNoOp == [][C13_Step]_vars

\* ASSASSINATION has begun with a guess of Morgana or of the Assassin, and
\* the turn has come to the Assassin over at least one other agent
C13_Witness ==
    /\ phase = "ASSASSINATION"
    /\ Live
    /\ agent_selection = "Assassin"
    /\ RelPos("Morgana", "Assassin") /= 1
    /\ terminations = [a \in Roster |-> FALSE]

(***************************************************************************)
(* C14.  A malformed action of the agent the phase waits for changes       *)
(* nothing but the scheduler, which advances by one seat: a proposal of    *)
(* the leader with a tag other than 0 or with a team of the wrong size, a  *)
(* vote with a tag other than 1, a quest card of a team member with a tag  *)
(* other than 2, a guess of an Evil agent or an assassination of the       *)
(* Assassin with a tag other than 3.                                       *)
(***************************************************************************)
\* the step the system has just taken, with a malformed action
MalformedStep ==
    \/ /\ phase = "TEAM_PROPOSAL"
       /\ agent_selection = possible_agents[leader_index + 1]
       /\ \E t \in 0..3, sel \in TeamSelections \cup {ZeroRow} :
             /\ StepProposal(t, sel)
             /\ t /= 0 \/ CountSeq(sel, 1) /= mission_sizes[mission_number]
    \/ /\ phase = "TEAM_VOTE"
       /\ \E t \in (0..3) \ {1}, v \in {0, 1} : StepVote(t, v)
    \/ /\ phase = "QUEST"
       /\ agent_selection \in Range(current_mission_team)
       /\ \E t \in (0..3) \ {2}, v \in {0, 1} : StepQuest(t, v)
    \/ /\ phase = "EVIL_DISCUSSION"
       /\ agent_selection \in evil_team
       /\ \E t \in 0..2, sel \in GuessVectors : StepEvilDiscussion(t, sel)
    \/ /\ phase = "ASSASSINATION"
       /\ roles(agent_selection) = "Assassin"
       /\ \E t \in 0..2, target \in Targets : StepAssassination(t, target)

C14_Step ==
    (Live /\ MalformedStep) =>
        /\ UNCHANGED gameVars
        /\ err' = None
        /\ IndexOf(agents, agent_selection')
              = (IndexOf(agents, agent_selection) + 1) % Len(agents)

C14_MalformedNoOp == [][C14_Step]_vars

\* a vote round is under way and Morgana's turn has just gone by without
\* a vote of hers in the buffer
C14_Witness ==
    /\ phase = "TEAM_VOTE"
    /\ Live
    /\ vote_buffer /= EmptyDict
    /\ "Morgana" \notin DOMAIN vote_buffer
    /\ RelPos("Morgana", agent_selection) = 1

(***************************************************************************)
(* C15.  Every step of a non-terminated agent, in every phase and whether  *)
(* or not its action is valid, moves the scheduler by exactly one seat:    *)
(* the current agent afterwards is the next one of the seating order,      *)
(* the last seat being followed by seat 0.                                 *)
(***************************************************************************)
C15_Step ==
    Live =>
        IndexOf(agents, agent_selection')
           = (IndexOf(agents, agent_selection) + 1) % Len(agents)

C15_SchedulerAdvances == [][C15_Step]_vars

(***************************************************************************)
(* C16.  An assassination of the Assassin whose target index is outside    *)
(* the roster (not in 0..5) is a no-op: rewards, terminated flags and      *)
(* phase are kept and step() raises no error.                              *)
(***************************************************************************)
C16_Step ==
    \A target_player \in Targets \ (0..(NumAgents - 1)) :
        (/\ Live
         /\ phase = "ASSASSINATION"
         /\ roles(agent_selection) = "Assassin"
         /\ StepAssassination(TAG_GUESS, target_player)) =>
            /\ err' = None
            /\ rewards' = rewards
            /\ terminations' = terminations
            /\ phase' = phase

C16_OutOfRangeTarget == [][C16_Step]_vars

(***************************************************************************)
(* C17.  Once the game is over, a step for an agent whose terminated flag  *)
(* is set raises no error, whatever the action, and changes none of:       *)
(* phase, mission number, leader index, rejection counter, proposed and    *)
(* mission team, vote, quest and guess buffers, mission ledger, vote       *)
(* history, probability table.                                             *)
(***************************************************************************)
C17_Step ==
    (agent_selection \in DOMAIN terminations /\ terminations[agent_selection]) =>
        /\ err' = None
        /\ UNCHANGED << phase, mission_number, leader_index, reject_count,
                        proposed_team, current_mission_team, vote_buffer,
                        quest_buffer, evil_guesses_buffer, mission_results,
                        mission_fail_counts, all_votes_history, evil_merlin_votes >>

C17_DeadStep == [][C17_Step]_vars

(***************************************************************************)
(* C18.  In a game where every agent submits a valid action on its turn,   *)
(* a state with every agent terminated is eventually reached: the game     *)
(* does not go round TEAM_PROPOSAL, TEAM_VOTE and QUEST for ever.          *)
(***************************************************************************)
C18_Terminates == <>AllTerminated

\* the driven game has ended after a fifth mission
C18_Witness ==
    /\ AllTerminated
    /\ Len(mission_results) = 5

(***************************************************************************)
(* C19.  Whenever the phase is TEAM_VOTE or QUEST, the proposed team has   *)
(* exactly the size required for the current mission, 2, 3, 4, 3, 4 for    *)
(* missions 1 to 5, and its members are distinct agents of the roster; a   *)
(* proposal of any other size leaves the phase at TEAM_PROPOSAL.           *)
(***************************************************************************)
C19_State ==
    /\ mission_sizes = <<2, 3, 4, 3, 4>>
    /\ phase \in {"TEAM_VOTE", "QUEST"} =>
          /\ Len(proposed_team) = <<2, 3, 4, 3, 4>>[mission_number]
          /\ Cardinality(Range(proposed_team)) = Len(proposed_team)
          /\ Range(proposed_team) \subseteq Roster

C19_Step ==
    \A t \in 0..3, sel \in TeamSelections \cup {ZeroRow} :
        (/\ StepProposal(t, sel)
         /\ CountSeq(sel, 1) /= <<2, 3, 4, 3, 4>>[mission_number]) =>
            /\ phase' = "TEAM_PROPOSAL"
            /\ proposed_team' = proposed_team

C19_TeamSize == []C19_State /\ [][C19_Step]_vars

\* the four-agent team of mission 3 is on its quest
C19_Witness ==
    /\ phase = "QUEST"
    /\ Live
    /\ mission_number = 3
    /\ Len(proposed_team) = 4

(***************************************************************************)
(* C20.  A vote round is resolved by the step that brings the vote buffer  *)
(* to six votes, and by no other.  The team is approved iff at least 4 of  *)
(* the 6 votes approve, so a 3-3 tie rejects.  The approving step itself   *)
(* copies the proposed team to the mission team, empties the quest buffer  *)
(* and sets the phase to QUEST.                                            *)
(***************************************************************************)
C20_Step ==
    (Live /\ phase = "TEAM_VOTE") =>
        /\ RoundResolved <=> (DOMAIN vote_buffer' = Roster)
        /\ RoundResolved =>
              /\ SubSeq(all_votes_history', Len(all_votes_history) + 1,
                        Len(all_votes_history'))
                    = [i \in 1..NumAgents |-> vote_buffer'[agents[i]]]
              /\ (phase' = "QUEST") <=> (SumValues(vote_buffer') >= 4)
              /\ SumValues(vote_buffer') >= 4 =>
                    /\ current_mission_team' = proposed_team
                    /\ quest_buffer' = EmptyDict
              /\ SumValues(vote_buffer') < 4 =>
                    /\ reject_count' = reject_count + 1
                    /\ UNCHANGED << current_mission_team, quest_buffer >>
        /\ ~RoundResolved => UNCHANGED << phase, current_mission_team, reject_count >>

C20_VoteResolution == [][C20_Step]_vars

\* a 3-3 tie has rejected the first team and 4 approvals have sent the
\* second one on its quest
C20_Witness ==
    /\ phase = "QUEST"
    /\ Len(all_votes_history) = 2 * NumAgents
    /\ LastApprovals(SubSeq(all_votes_history, 1, NumAgents)) = 3
    /\ LastApprovals(all_votes_history) = 4
    /\ current_mission_team = proposed_team
    /\ quest_buffer = EmptyDict

(***************************************************************************)
(* C21.  The step that resolves a vote round as rejected with fewer than   *)
(* 5 rejections in a row sets the leader index to (leader + 1) mod 6,      *)
(* empties the proposed team and sets the phase to TEAM_PROPOSAL; mission  *)
(* number, mission ledger and terminated flags are unchanged.              *)
(***************************************************************************)
C21_Step ==
    (RoundRejected /\ reject_count' < 5) =>
        /\ reject_count' = reject_count + 1
        /\ leader_index' = (leader_index + 1) % 6
        /\ proposed_team' = <<>>
        /\ phase' = "TEAM_PROPOSAL"
        /\ UNCHANGED << mission_number, mission_results, mission_fail_counts,
                        who_chose_history, terminations >>

C21_Rejection == [][C21_Step]_vars

\* the first mission's fourth rejection in a row has handed the proposal
\* on, the leader index having wrapped round to 0 on the way
C21_Witness ==
    /\ phase = "TEAM_PROPOSAL"
    /\ Live
    /\ reject_count = 4
    /\ proposed_team = <<>>
    /\ mission_number = 1
    /\ leader_index < 4

(***************************************************************************)
(* C22.  The vote buffer holds one vote per agent: a vote of an agent      *)
(* that has already voted in the round replaces its earlier vote and does  *)
(* not enlarge the buffer.  A round is therefore resolved only with the    *)
(* votes of all 6 agents, and the vote put on record and counted for each  *)
(* agent is the one it submitted last.                                     *)
(***************************************************************************)
C22_Step ==
    (Live /\ phase = "TEAM_VOTE") =>
        /\ \A v \in {0, 1} :
              StepVote(1, v) =>
                 /\ DOMAIN vote_buffer' = DOMAIN vote_buffer \cup {agent_selection}
                 /\ vote_buffer'[agent_selection] = v
                 /\ \A a \in DOMAIN vote_buffer \ {agent_selection} :
                       vote_buffer'[a] = vote_buffer[a]
        /\ Cardinality(DOMAIN vote_buffer') <= NumAgents
        /\ RoundResolved =>
              /\ DOMAIN vote_buffer' = Roster
              /\ \A i \in 1..NumAgents :
                    all_votes_history'[Len(all_votes_history) + i] = vote_buffer'[agents[i]]
              /\ (phase' = "QUEST") <=> (SumValues(vote_buffer') >= 4)

C22_OneVotePerAgent == [][C22_Step]_vars

\* Morgana has let her turn go by twice without a vote; the agent seated
\* after her has voted in both turns of the round
C22_Witness ==
    /\ phase = "TEAM_VOTE"
    /\ Live
    /\ DOMAIN vote_buffer = Roster \ {"Morgana"}
    /\ RelPos("Morgana", agent_selection) = 2
    /\ RelPos("Morgana", possible_agents[current_mission_leader + 1]) /= 1

(***************************************************************************)
(* C23.  The step that resolves a vote round, approved or rejected,        *)
(* appends exactly 6 votes to the vote history, the votes of the agents    *)
(* in seating order, and no other step changes the history.  Its length    *)
(* is 6 times the number of resolved rounds, which is at most 5 for each   *)
(* mission begun, and never exceeds 150, the size of all_prior_votes.      *)
(***************************************************************************)
\* vote rounds that can have been resolved up to the current state
RoundsSoFar ==
    5 * (mission_number - 1)
       + (IF phase \in {"TEAM_PROPOSAL", "TEAM_VOTE"} THEN reject_count ELSE 5)

C23_State ==
    /\ Len(all_votes_history) % 6 = 0
    /\ Len(all_votes_history) <= 6 * RoundsSoFar
    /\ mission_number \in 1..5
    /\ Len(all_votes_history) <= 150
    /\ PriorVotesSize = 150
    /\ \A i \in 1..PriorVotesSize :
          all_prior_votes[i] = IF i <= Len(all_votes_history) THEN all_votes_history[i] ELSE 0

C23_Step ==
    \/ all_votes_history' = all_votes_history
    \/ /\ Live /\ phase = "TEAM_VOTE"
       /\ DOMAIN vote_buffer' = Roster
       /\ Len(agents) = 6
       /\ all_votes_history' =
             all_votes_history \o [i \in 1..6 |-> vote_buffer'[agents[i]]]
       /\ \/ phase' = "QUEST"
          \/ reject_count' = reject_count + 1

C23_VoteHistory == []C23_State /\ [][C23_Step]_vars

\* the twenty-fifth round of a game is resolved: the history is full
C23_Witness ==
    /\ Len(all_votes_history) = 150
    /\ mission_number = 5
    /\ phase = "QUEST"

(***************************************************************************)
(* C24.  The vote buffer and the quest buffer are emptied by the step      *)
(* that resolves the vote round or records the quest, so that both are     *)
(* empty in every state whose phase is TEAM_PROPOSAL.                      *)
(***************************************************************************)
C24_BuffersTransient ==
    phase = "TEAM_PROPOSAL" => (vote_buffer = EmptyDict /\ quest_buffer = EmptyDict)

(***************************************************************************)
(* C25.  The mission ledger (results, fail counts, leaders) is append      *)
(* only: the step that resolves a quest appends one entry to each of the   *)
(* three lists and no other step changes them; the lists have the same     *)
(* length, at most 5; the leader put on record for a mission is the        *)
(* leader index at the time the approved team was proposed.                *)
(***************************************************************************)
C25_State ==
    /\ Len(mission_results) = Len(mission_fail_counts)
    /\ Len(mission_results) = Len(who_chose_history)
    /\ Len(mission_results) <= 5
    \* between the proposal and the end of the quest the leader index rests
    /\ phase \in {"TEAM_VOTE", "QUEST"} => current_mission_leader = leader_index

C25_Step ==
    /\ (Live /\ phase = "TEAM_PROPOSAL" /\ phase' = "TEAM_VOTE") =>
          current_mission_leader' = leader_index
    /\ \/ UNCHANGED << mission_results, mission_fail_counts, who_chose_history >>
       \/ /\ Live /\ phase = "QUEST"
          /\ DOMAIN quest_buffer' = Range(current_mission_team)
          /\ \E result \in BOOLEAN, fails \in 0..NumAgents :
                /\ mission_results' = Append(mission_results, result)
                /\ mission_fail_counts' = Append(mission_fail_counts, fails)
          /\ who_chose_history' = Append(who_chose_history, leader_index)

C25_LedgerAppendOnly == []C25_State /\ [][C25_Step]_vars

\* five missions are on record, proposed under five different leaders
C25_Witness ==
    /\ Len(mission_results) = 5
    /\ Len(who_chose_history) = 5
    /\ Cardinality(Range(who_chose_history)) = 5

(***************************************************************************)
(* C26.  After reset(), whatever the shuffle: the phase is TEAM_PROPOSAL,  *)
(* the mission number 1, the rejection counter 0, every buffer and         *)
(* history empty, no agent terminated, every reward 0; the current agent   *)
(* is the agent of seat 0 and the leader index is that agent's roster      *)
(* index, so that the first agent to act is the one allowed to propose.    *)
(***************************************************************************)
C26_AfterReset ==
    /\ phase = "TEAM_PROPOSAL"
    /\ mission_number = 1
    /\ reject_count = 0
    /\ vote_buffer = EmptyDict /\ quest_buffer = EmptyDict
    /\ evil_guesses_buffer = EmptyDict
    /\ all_votes_history = <<>>
    /\ mission_results = <<>> /\ mission_fail_counts = <<>> /\ who_chose_history = <<>>
    /\ proposed_team = <<>> /\ current_mission_team = <<>>
    /\ evil_merlin_votes = ZeroMatrix
    /\ Range(agents) = Roster /\ Len(agents) = 6
    /\ \A a \in Roster : ~terminations[a] /\ rewards[a] = 0 /\ cumulative_rewards[a] = 0
    /\ agent_selection = agents[1]
    /\ possible_agents[leader_index + 1] = agents[1]

\* the first step of a game, with a team of the right size, is an accepted
\* proposal of the agent of seat 0
C26_FirstStep ==
    \A sel \in TeamSelections :
        (/\ C26_AfterReset
         /\ CountSeq(sel, 1) = 2
         /\ StepProposal(0, sel)) =>
            /\ phase' = "TEAM_VOTE"
            /\ proposed_team' /= <<>>
            /\ current_mission_leader' = IndexOf(possible_agents, agents[1])

C26_Reset == C26_AfterReset /\ [][C26_FirstStep]_vars

\* the agent of seat 0, who is not the first agent of the roster, has made
\* the first proposal of the game
C26_Witness ==
    /\ phase = "TEAM_VOTE"
    /\ all_votes_history = <<>>
    /\ vote_buffer = EmptyDict
    /\ agents[1] /= possible_agents[1]
    /\ current_mission_leader = IndexOf(possible_agents, agents[1])
    /\ agent_selection = agents[2]

(***************************************************************************)
(* C27.  The leader fields of a view name the real leader: with all six    *)
(* agents seated, who_choose_current_mission is the position, counted      *)
(* from the requester, of the roster agent at the leader index, the agent  *)
(* step() lets propose; did_i_choose_current_team is 1 exactly for that    *)
(* agent; entry i of who_choose_prior_mission is the position of the       *)
(* agent that proposed the i-th completed mission.                         *)
(***************************************************************************)
\* the agent that step() lets propose under leader index l
LeaderOf(l) == possible_agents[l + 1]

C27_LeaderView ==
    Len(agents) = 6 =>
        \A agent \in Range(agents) :
            /\ observe(agent).who_choose_current_mission
                  = RelPos(agent, LeaderOf(leader_index))
            /\ observe(agent).did_i_choose_current_team = 1
                  <=> agent = LeaderOf(leader_index)
            /\ \A i \in 1..Len(who_chose_history) :
                  observe(agent).who_choose_prior_mission[i]
                     = RelPos(agent, LeaderOf(who_chose_history[i]))

(***************************************************************************)
(* C28.  Once EVIL_DISCUSSION is complete, the guess table in the view of  *)
(* an Evil requester has, in the row at the position of each Evil agent    *)
(* counted from the requester, the guess vector that agent submitted, and  *)
(* an all-zero row at the position of every Good agent.                    *)
(***************************************************************************)
\* a submitted vector with its entries relabelled as observe() relabels
\* the columns of the table
RelabelledGuess(agent, guess) ==
    [j \in 1..NumAgents |-> guess[IndexOf(agents, relative_order(agent)[j]) + 1]]

C28_GuessTable ==
    (phase = "ASSASSINATION" /\ Len(agents) = 6) =>
        \A agent \in evil_team : \A other \in Roster :
            evil_guesses(agent)[RelPos(agent, other) + 1]
               = IF other \in evil_team
                 THEN RelabelledGuess(agent, evil_guesses_buffer[other])
                 ELSE ZeroRow

(***************************************************************************)
(* C29.  GAME_OVER is the terminal phase: in every state in which all      *)
(* agents are terminated, after a fifth rejection, a third failed mission  *)
(* or the assassination, the phase is GAME_OVER.                           *)
(***************************************************************************)
C29_GameOverPhase ==
    /\ phase \in {"TEAM_PROPOSAL", "TEAM_VOTE", "QUEST", "EVIL_DISCUSSION",
                  "ASSASSINATION", "GAME_OVER"}
    /\ AllTerminated => phase = "GAME_OVER"

(***************************************************************************)
(* C30.  Whenever the leader changes, after a rejection below the limit    *)
(* or after a mission that is followed by another, the new leader is the   *)
(* agent seated immediately after the previous leader in the seating.      *)
(***************************************************************************)
C30_Step ==
    (Live /\ leader_index' /= leader_index) =>
        RelPos(LeaderOf(leader_index), LeaderOf(leader_index')) = 1

C30_SeatRotation == [][C30_Step]_vars

(***************************************************************************)
(* C31.  In every state in which observe can be called for an agent, the   *)
(* reject_count of the view is within the declared range 0..4, also right  *)
(* after the rejection that ends the game.                                 *)
(***************************************************************************)
C31_RejectCountInRange ==
    \A agent \in Range(agents) :
        observe(agent).reject_count \in 0..(RejectCountSpace - 1)

(***************************************************************************)
(* C32.  The mission number is always in 1..5.  While a mission is being   *)
(* proposed, voted on or played, mission_number - 1 missions are on        *)
(* record.  Successes and failures are each at most 3 and never both 3,    *)
(* and once either is 3 no team is proposed and no quest played.           *)
(***************************************************************************)
\* a faction has its three missions
Decided == Successes(mission_results) = 3 \/ Failures(mission_results) = 3

C32_State ==
    /\ mission_number \in 1..5
    /\ mission_number \in DOMAIN mission_sizes
    /\ phase \in {"TEAM_PROPOSAL", "TEAM_VOTE"} =>
          Len(mission_results) = mission_number - 1
    /\ (phase = "QUEST" /\ ~NoneLive) => Len(mission_results) = mission_number - 1
    /\ Successes(mission_results) <= 3
    /\ Failures(mission_results) <= 3
    /\ ~(Successes(mission_results) = 3 /\ Failures(mission_results) = 3)
    /\ Successes(mission_results) = 3 => phase \in {"EVIL_DISCUSSION", "ASSASSINATION"}
    /\ Failures(mission_results) = 3 => (phase = "QUEST" /\ NoneLive)

C32_Step ==
    Decided =>
        UNCHANGED << mission_number, mission_results, mission_fail_counts,
                     who_chose_history, proposed_team, current_mission_team,
                     quest_buffer, vote_buffer, all_votes_history >>

C32_MissionCount == []C32_State /\ [][C32_Step]_vars

\* the fifth mission has given Good its third success
C32_Witness ==
    /\ mission_number = 5
    /\ Len(mission_results) = 5
    /\ Successes(mission_results) = 3
    /\ Failures(mission_results) = 2
    /\ phase = "ASSASSINATION"

====
